---- MODULE Spec2Model ----
(***************************************************************************)
(* PR review reason classifier (src/main.py): the hybrid label decision.   *)
(* A comment is first matched against the per-label keyword tables         *)
(* (rule_based_label); when the rules give no label the fitted linear      *)
(* classifier scores it and the margin threshold decides (classify).       *)
(*                                                                         *)
(* Texts are TLA+ strings and are processed character by character, as     *)
(* the Python string operations do.  Scores are integers in hundredths     *)
(* (1.0 is 100, 0.25 is 25).                                               *)
(***************************************************************************)
EXTENDS Integers, Sequences, FiniteSets, TLC

VARIABLES
    files,          \* the dataset files next to main.py: file name -> file
    load_log,       \* what load_csv_examples did with each file, <<>> before
    train_texts,    \* module-level train_texts (seed + CSV), <<>> before training
    train_labels,   \* module-level train_labels
    clf,            \* the fitted vectorizer + LinearSVC, or NotFitted
    request,        \* the POST /classify being handled: its text, or NoRequest
    response,       \* the ClassificationResult the handler returned, or NoResponse
    trace,          \* the locals of that classify call, or NoTrace
    earlier,        \* a client's note of an answer it got: text and result
    calls           \* the classify calls of the worker threads: thread -> locals

vars == <<files, load_log, train_texts, train_labels, clf, request, response, trace,
          earlier, calls>>

-----------------------------------------------------------------------------
(* Bounds of the model                                                     *)

\* longest sequence of vocabulary words at the head of a request text
MaxCore == 2
\* largest number of filler tokens appended to it
MaxPad == 8
\* largest number of rows of a dataset file
MaxRows == 2

\* worker threads that run classify at the same time
MaxWorkers == 2

-----------------------------------------------------------------------------
(* Canonical labels                                                        *)

LABEL_SPEC_INTENT == "1) Specification / Intent Mismatch"
LABEL_LOGIC == "2) Logic / Semantic Defects"
LABEL_BUILD_CI == "3) Build / CI / Environment Failures"
LABEL_STYLE == "4) Style / Convention Violations"
LABEL_TESTING == "5) Testing Inadequacy (Missing, Weak, or Incorrect Tests)"
LABEL_DESIGN == "6) Architectural / Design Misfit"
LABEL_PROCESS == "7) Process / Policy Violations (Governance Gates)"
LABEL_TOOLING == "8) Tool-Use / Automation Errors"
LABEL_OTHER == "9) Other / Unclear or Not Defect-Related"

ALL_LABELS ==
    << LABEL_SPEC_INTENT, LABEL_LOGIC, LABEL_BUILD_CI, LABEL_STYLE, LABEL_TESTING,
       LABEL_DESIGN, LABEL_PROCESS, LABEL_TOOLING, LABEL_OTHER >>

\* Python's None
None == "None"

\* position of a label in ALL_LABELS (its ordinal); the label strings start
\* with the digits 1..9, so this is also their order as Python strings
Ordinal(label) == CHOOSE i \in 1..Len(ALL_LABELS) : ALL_LABELS[i] = label

-----------------------------------------------------------------------------
(* Python string operations                                                *)

CharAt(s, i) == SubSeq(s, i, i)

\* the lower-case letter of every upper-case ASCII letter
LowerOf ==
    ("A" :> "a") @@ ("B" :> "b") @@ ("C" :> "c") @@ ("D" :> "d") @@ ("E" :> "e") @@
    ("F" :> "f") @@ ("G" :> "g") @@ ("H" :> "h") @@ ("I" :> "i") @@ ("J" :> "j") @@
    ("K" :> "k") @@ ("L" :> "l") @@ ("M" :> "m") @@ ("N" :> "n") @@ ("O" :> "o") @@
    ("P" :> "p") @@ ("Q" :> "q") @@ ("R" :> "r") @@ ("S" :> "s") @@ ("T" :> "t") @@
    ("U" :> "u") @@ ("V" :> "v") @@ ("W" :> "w") @@ ("X" :> "x") @@ ("Y" :> "y") @@
    ("Z" :> "z")

\* str.lower() on one character
LowerChar(c) == IF c \in DOMAIN LowerOf THEN LowerOf[c] ELSE c

RECURSIVE LowerFrom(_, _)
LowerFrom(s, i) ==
    IF i > Len(s) THEN "" ELSE LowerChar(CharAt(s, i)) \o LowerFrom(s, i + 1)

\* str.lower()
StrLower(s) == LowerFrom(s, 1)

RECURSIVE ReplaceFrom(_, _, _, _)
ReplaceFrom(s, i, old, new) ==
    IF i > Len(s) THEN ""
    ELSE (IF CharAt(s, i) = old THEN new ELSE CharAt(s, i))
         \o ReplaceFrom(s, i + 1, old, new)

\* str.replace(old, new) for a one-character old
StrReplace(s, old, new) == ReplaceFrom(s, 1, old, new)

\* the characters str.split() treats as separators
IsSpace(c) == c \in {" ", "\t", "\n", "\r", "\f"}

RECURSIVE SplitFrom(_, _, _)
\* scan s from position i; cur is the token being read
SplitFrom(s, i, cur) ==
    IF i > Len(s) THEN (IF cur = "" THEN << >> ELSE << cur >>)
    ELSE IF IsSpace(CharAt(s, i))
         THEN (IF cur = "" THEN << >> ELSE << cur >>) \o SplitFrom(s, i + 1, "")
         ELSE SplitFrom(s, i + 1, cur \o CharAt(s, i))

\* str.split(): the maximal runs of non-whitespace characters
StrSplit(s) == SplitFrom(s, 1, "")

RECURSIVE StrJoin(_, _)
\* sep.join(parts)
StrJoin(sep, parts) ==
    IF Len(parts) = 0 THEN ""
    ELSE IF Len(parts) = 1 THEN parts[1]
    ELSE parts[1] \o sep \o StrJoin(sep, Tail(parts))

\* kw in t
StrIn(kw, t) ==
    \E i \in 1..(Len(t) - Len(kw) + 1) : SubSeq(t, i, i + Len(kw) - 1) = kw

-----------------------------------------------------------------------------
(* Keyword tables                                                          *)

\* KEYWORDS.items(): the (label, list) pairs in dict order.  Each list is
\* the excerpt of the label's list in main.py that can occur in a request
\* of this model (every entry of the label that is a substring of some
\* lower-cased request text, in list order, repeated as often as the list
\* repeats it) together with the entries that are not lower-case, or the
\* list's first entry when the excerpt would be empty.
KEYWORDS ==
    << << LABEL_SPEC_INTENT, << "req", "wrong", "feature" >> >>,
       << LABEL_LOGIC, << "null pointer", "overflow", "wrong variable", "exception",
                          "null", "pointer", "overflow", "hang", "NaN",
                          "null pointer", "null pointer exception" >> >>,
       << LABEL_BUILD_CI, << "pipeline", "pipeline", "variable", "red" >> >>,
       << LABEL_STYLE, << "line length" >> >>,
       << LABEL_TESTING, << "test" >> >>,
       << LABEL_DESIGN, << "hot path" >> >>,
       << LABEL_PROCESS, << "process", "process" >> >>,
       << LABEL_TOOLING, << "generator", "generator", "pip", "pipeline" >> >>,
       << LABEL_OTHER, << "lgtm", "thanks", "nice change" >> >> >>

RECURSIVE HitCount(_, _)
\* sum(1 for kw in kws if kw in t)
HitCount(kws, t) ==
    IF Len(kws) = 0 THEN 0
    ELSE (IF StrIn(Head(kws), t) THEN 1 ELSE 0) + HitCount(Tail(kws), t)

RECURSIVE ScoreItems(_, _)
\* the scores dict of rule_based_label as its items in insertion order
ScoreItems(items, t) ==
    IF Len(items) = 0 THEN << >>
    ELSE LET label == Head(items)[1]
             kws == Head(items)[2]
             count == HitCount(kws, t)
         IN  (IF Len(kws) = 0 \/ count = 0 THEN << >> ELSE << << label, count >> >>)
             \o ScoreItems(Tail(items), t)

\* MaxKey with the bug of keeping the last key that holds the largest value
MaxKey_last(scores) ==
    LET best == CHOOSE i \in 1..Len(scores) :
                    /\ \A j \in 1..Len(scores) : scores[j][2] <= scores[i][2]
                    /\ \A j \in (i + 1)..Len(scores) : scores[j][2] < scores[i][2]
    IN  scores[best]

\* max(scores, key=scores.get): the first key, in insertion order, whose
\* value is the largest
MaxKey(scores) ==
    LET best == CHOOSE i \in 1..Len(scores) :
                    /\ \A j \in 1..Len(scores) : scores[j][2] <= scores[i][2]
                    /\ \A j \in 1..(i - 1) : scores[j][2] < scores[i][2]
    IN  scores[best]

\* MAX_SHORT_WORDS with the bug of comparing len(words) < 8
MAX_SHORT_WORDS_exclusive == 8 - 1

\* the length threshold of the single-keyword rule: len(words) <= 8
MAX_SHORT_WORDS == 8

\* rule_based_label_run with the bug of asking for a short text in the
\* two-hit rule as well
rule_based_label_run_short_only(text) ==
    LET t == StrLower(text)
        words == StrSplit(t)
        scores == ScoreItems(KEYWORDS, t)
        ret == IF Len(scores) = 0 THEN None
               ELSE LET best_label == MaxKey(scores)[1]
                        max_hits == MaxKey(scores)[2]
                    IN  IF max_hits >= 1 /\ Len(words) <= MAX_SHORT_WORDS
                        THEN best_label
                        ELSE None
    IN  [t |-> t, words |-> words, scores |-> scores, ret |-> ret]

\* the body of rule_based_label(text): its locals and the value it returns
rule_based_label_run(text) ==
    LET t == StrLower(text)
        words == StrSplit(t)
        scores == ScoreItems(KEYWORDS, t)
        ret == IF Len(scores) = 0 THEN None
               ELSE LET best_label == MaxKey(scores)[1]
                        max_hits == MaxKey(scores)[2]
                    IN  IF max_hits >= 2 THEN best_label
                        ELSE IF max_hits = 1 /\ Len(words) <= MAX_SHORT_WORDS
                             THEN best_label
                        ELSE None
    IN  [t |-> t, words |-> words, scores |-> scores, ret |-> ret]

rule_based_label(text) == rule_based_label_run(text).ret

-----------------------------------------------------------------------------
(* Seed examples and the training corpus                                   *)

\* SEED_LABEL_TEXTS.items(), in dict order
SEED_LABEL_TEXTS ==
    << << LABEL_SPEC_INTENT,
          << "this change does not match the requirement",
             "wrong behavior compared to the spec",
             "misinterprets the issue description",
             "does not implement the requested feature correctly",
             "behavior is different from what the ticket describes",
             "implements the wrong requirement entirely",
             "the API contract says null must be allowed",
             "this does not cover all cases from the user story" >> >>,
       << LABEL_LOGIC,
          << "null pointer exception risk",
             "off by one error in the loop",
             "logic bug when flag is false",
             "wrong condition in the if statement",
             "breaks edge cases when list is empty",
             "incorrect algorithm for this data structure",
             "this branch will never be executed",
             "updating the wrong variable here",
             "this will overflow for large n" >> >>,
       << LABEL_BUILD_CI,
          << "fails to build on the ci server",
             "ci pipeline fails on linux environment",
             "non reproducible build between local and ci",
             "missing dependency in the build configuration",
             "works locally but fails in ci",
             "docker image does not build successfully",
             "test suite times out only in ci environment",
             "flaky test in the CI job" >> >>,
       << LABEL_STYLE,
          << "coding style problem according to our guide",
             "formatting issue: please run the formatter",
             "naming convention is not followed for this class",
             "please run the linter before pushing",
             "does not follow our style guide for imports",
             "indentation and spacing are inconsistent",
             "line length exceeds the maximum allowed",
             "this pattern is not idiomatic for this codebase" >> >>,
       << LABEL_TESTING,
          << "missing tests for this new behavior",
             "weak test coverage around edge cases",
             "no unit tests were added for this change",
             "tests are incorrect and assert the wrong behavior",
             "please add more test cases for negative scenarios",
             "this code path is not covered by any test",
             "need regression tests for the bug you are fixing",
             "coverage threshold is not met for this change" >> >>,
       << LABEL_DESIGN,
          << "breaks our architecture by crossing service boundaries",
             "not aligned with the design of this module",
             "violates layering between api and data access",
             "poor design: mixes concerns from different layers",
             "bad abstraction, this logic belongs in a different class",
             "introduces tight coupling between unrelated modules",
             "creates a circular dependency in the package structure",
             "this adds an O(n^2) algorithm in a hot path" >> >>,
       << LABEL_PROCESS,
          << "does not follow our contribution process",
             "missing cla signature for this author",
             "policy violation: target branch is not allowed",
             "needs approval from maintainer according to policy",
             "required labels are missing from this pull request",
             "coverage threshold not met according to policy",
             "you must update the changelog before we can merge" >> >>,
       << LABEL_TOOLING,
          << "misuse of tool: please use our wrapper script",
             "failed linter command due to wrong arguments",
             "automation script error when running the release job",
             "wrong build flag passed to the compiler",
             "generator was not run correctly for the new schema",
             "using the wrong test runner command for this project",
             "please rerun the code generator before committing",
             "pre-commit hooks were not run on this change" >> >>,
       << LABEL_OTHER, << >> >> >>

RECURSIVE SeedPairs(_)
\* the (text, label) pairs seed_examples_from_dict appends, label by label
SeedPairs(items) ==
    IF Len(items) = 0 THEN << >>
    ELSE [i \in 1..Len(Head(items)[2]) |-> << Head(items)[2][i], Head(items)[1] >>]
         \o SeedPairs(Tail(items))

\* seed_examples_from_dict(): (texts, labels)
seed_examples_from_dict ==
    LET pairs == SeedPairs(SEED_LABEL_TEXTS)
    IN  << [i \in 1..Len(pairs) |-> pairs[i][1]], [i \in 1..Len(pairs) |-> pairs[i][2]] >>

\* clean_text with the bug of replacing the line breaks only
clean_text_keeps_blanks(text) ==
    StrReplace(StrReplace(text, "\n", " "), "\r", " ")

\* clean_text(text) for a str argument
clean_text(text) ==
    StrJoin(" ", StrSplit(StrReplace(StrReplace(text, "\n", " "), "\r", " ")))

-----------------------------------------------------------------------------
(* Category normalisation                                                  *)

\* the characters str.strip() removes when it is given no argument
Whitespace == { " ", "\t", "\n", "\r", "\f" }

RECURSIVE FirstKept(_, _, _)
\* the first position from i on whose character is not in chars
FirstKept(s, i, chars) ==
    IF i > Len(s) \/ CharAt(s, i) \notin chars THEN i
    ELSE FirstKept(s, i + 1, chars)

RECURSIVE LastKept(_, _, _)
\* the last position up to i whose character is not in chars
LastKept(s, i, chars) ==
    IF i < 1 \/ CharAt(s, i) \notin chars THEN i
    ELSE LastKept(s, i - 1, chars)

\* str.strip(chars)
StrStrip(s, chars) ==
    LET first == FirstKept(s, 1, chars)
        last == LastKept(s, Len(s), chars)
    IN  IF first > last THEN "" ELSE SubSeq(s, first, last)

\* str.startswith(prefix)
StartsWith(s, prefix) ==
    Len(prefix) <= Len(s) /\ SubSeq(s, 1, Len(prefix)) = prefix

\* s.split(sep, 1)[1] for a one-character sep that occurs in s: what follows
\* its first occurrence
AfterFirst(s, sep) ==
    LET at == CHOOSE i \in 1..Len(s) :
                  /\ CharAt(s, i) = sep
                  /\ \A j \in 1..(i - 1) : CharAt(s, j) # sep
    IN  IF at = Len(s) THEN "" ELSE SubSeq(s, at + 1, Len(s))

\* CategoryOf with the bug of making the tests in the reverse order
CategoryOf_reversed(core_lower) ==
    IF StartsWith(core_lower, "other")
    THEN LABEL_OTHER
    ELSE IF \/ StartsWith(core_lower, "tool-use")
            \/ StartsWith(core_lower, "tool use")
            \/ StrIn("automation error", core_lower)
    THEN LABEL_TOOLING
    ELSE IF StartsWith(core_lower, "process") \/ StartsWith(core_lower, "policy")
    THEN LABEL_PROCESS
    ELSE IF StartsWith(core_lower, "architectural") \/ StrIn("design misfit", core_lower)
    THEN LABEL_DESIGN
    ELSE IF \/ StartsWith(core_lower, "testing")
            \/ StrIn("testing inadequacy", core_lower)
            \/ StrIn("missing, weak, or incorrect tests", core_lower)
    THEN LABEL_TESTING
    ELSE IF StartsWith(core_lower, "style") \/ StrIn("convention violation", core_lower)
    THEN LABEL_STYLE
    ELSE IF \/ StartsWith(core_lower, "build")
            \/ StrIn("ci/environment", core_lower)
            \/ StrIn("environment failure", core_lower)
    THEN LABEL_BUILD_CI
    ELSE IF StartsWith(core_lower, "logic") \/ StrIn("semantic", core_lower)
    THEN LABEL_LOGIC
    ELSE IF StartsWith(core_lower, "specification") \/ StrIn("intent mismatch", core_lower)
    THEN LABEL_SPEC_INTENT
    ELSE LABEL_OTHER

\* the chain of tests of normalize_category on core_lower
CategoryOf(core_lower) ==
    IF StartsWith(core_lower, "specification") \/ StrIn("intent mismatch", core_lower)
    THEN LABEL_SPEC_INTENT
    ELSE IF StartsWith(core_lower, "logic") \/ StrIn("semantic", core_lower)
    THEN LABEL_LOGIC
    ELSE IF \/ StartsWith(core_lower, "build")
            \/ StrIn("ci/environment", core_lower)
            \/ StrIn("environment failure", core_lower)
    THEN LABEL_BUILD_CI
    ELSE IF StartsWith(core_lower, "style") \/ StrIn("convention violation", core_lower)
    THEN LABEL_STYLE
    ELSE IF \/ StartsWith(core_lower, "testing")
            \/ StrIn("testing inadequacy", core_lower)
            \/ StrIn("missing, weak, or incorrect tests", core_lower)
    THEN LABEL_TESTING
    ELSE IF StartsWith(core_lower, "architectural") \/ StrIn("design misfit", core_lower)
    THEN LABEL_DESIGN
    ELSE IF StartsWith(core_lower, "process") \/ StartsWith(core_lower, "policy")
    THEN LABEL_PROCESS
    ELSE IF \/ StartsWith(core_lower, "tool-use")
            \/ StartsWith(core_lower, "tool use")
            \/ StrIn("automation error", core_lower)
    THEN LABEL_TOOLING
    ELSE IF StartsWith(core_lower, "other")
    THEN LABEL_OTHER
    ELSE LABEL_OTHER

\* normalize_category with the bug of keeping the "N)" numbering prefix
normalize_category_keeps_number(raw) ==
    IF raw = None \/ raw = "" THEN None
    ELSE LET c == StrStrip(StrStrip(StrStrip(raw, Whitespace), {"\""}), {"'"})
         IN  CategoryOf(StrLower(c))

\* normalize_category(raw)
normalize_category(raw) ==
    IF raw = None \/ raw = "" THEN None
    ELSE LET c == StrStrip(StrStrip(StrStrip(raw, Whitespace), {"\""}), {"'"})
             c_core == IF StrIn(")", c)
                       THEN StrStrip(AfterFirst(c, ")"), Whitespace)
                       ELSE c
         IN  CategoryOf(StrLower(c_core))

-----------------------------------------------------------------------------
(* Loading the dataset files                                               *)

DATASET_FILES == << "pr_reasons_labeled.csv", "pr_comments_dataset_publish.csv" >>

encodings_to_try == << "utf-8-sig", "utf-8", "cp1256", "latin-1" >>

\* the columns load_csv_examples reads
Columns ==
    { "body_comment", "comment_body", "body", "text", "Category", "category", "label" }

\* a row of csv.DictReader with one text cell and one category cell;
\* row.get(column) is None for a column the file does not have
Row(text_column, text, category_column, category) ==
    [column \in Columns |->
        IF column = text_column THEN text
        ELSE IF column = category_column THEN category
        ELSE None]

\* a row of csv.DictReader with the given cells: cells maps columns of the
\* file's header to what the row holds in them
RowOf(cells) ==
    [column \in Columns |-> IF column \in DOMAIN cells THEN cells[column] ELSE None]

\* `a or b` with the bug of passing over a missing value only, not an
\* empty one
PyOr_present(a, b) == IF a # None THEN a ELSE b

\* Python's `a or b`
PyOr(a, b) == IF a # None /\ a # "" THEN a ELSE b

\* A dataset file is [exists, rows, raises, after]: whether path.exists()
\* finds it, the rows a complete read yields, the exception reading it
\* raises (None when there is none) and the number of rows the reader has
\* yielded when it is raised.  UnicodeDecodeError
\* stands for bytes that are not valid UTF-8: the decoder raises it when it
\* reaches their block of the file, under "utf-8-sig" and "utf-8" alike,
\* and never under "cp1256" or "latin-1", which decode every byte.
\* Exception stands for an error of the csv reader (an oversized field),
\* raised under every encoding.
Utf8Codecs == { "utf-8-sig", "utf-8" }

\* csv.DictReader(path.open(encoding=enc)): the rows the loop body sees and
\* the exception that ends the loop
ReadRows(file, enc) ==
    IF file.raises = "Exception" \/ (file.raises = "UnicodeDecodeError" /\ enc \in Utf8Codecs)
    THEN [rows |-> SubSeq(file.rows, 1, file.after), raised |-> file.raises]
    ELSE [rows |-> file.rows, raised |-> None]

RECURSIVE RowExamples_drops_other(_)
\* RowExamples with the bug of skipping the rows normalised to Other
RowExamples_drops_other(rows) ==
    IF Len(rows) = 0 THEN << >>
    ELSE LET row == Head(rows)
             raw_text == PyOr(PyOr(PyOr(row["body_comment"], row["comment_body"]),
                                   row["body"]), row["text"])
             raw_cat == PyOr(PyOr(row["Category"], row["category"]), row["label"])
             text == clean_text(PyOr(raw_text, ""))
             label == normalize_category(PyOr(raw_cat, ""))
         IN  (IF text = "" THEN << >>
              ELSE IF label = None \/ label = LABEL_OTHER THEN << >>
              ELSE << << text, label >> >>)
             \o RowExamples_drops_other(Tail(rows))

RECURSIVE RowExamples_keeps_blank(_)
\* RowExamples with the bug of not skipping a row whose text is empty
RowExamples_keeps_blank(rows) ==
    IF Len(rows) = 0 THEN << >>
    ELSE LET row == Head(rows)
             raw_text == PyOr(PyOr(PyOr(row["body_comment"], row["comment_body"]),
                                   row["body"]), row["text"])
             raw_cat == PyOr(PyOr(row["Category"], row["category"]), row["label"])
             text == clean_text(PyOr(raw_text, ""))
             label == normalize_category(PyOr(raw_cat, ""))
         IN  (IF label = None THEN << >>
              ELSE << << text, label >> >>)
             \o RowExamples_keeps_blank(Tail(rows))

RECURSIVE RowExamples(_)
\* the body of `for row in reader`: the (text, label) pairs appended for rows
RowExamples(rows) ==
    IF Len(rows) = 0 THEN << >>
    ELSE LET row == Head(rows)
             raw_text == PyOr(PyOr(PyOr(row["body_comment"], row["comment_body"]),
                                   row["body"]), row["text"])
             raw_cat == PyOr(PyOr(row["Category"], row["category"]), row["label"])
             text == clean_text(PyOr(raw_text, ""))
             label == normalize_category(PyOr(raw_cat, ""))
         IN  (IF text = "" THEN << >>
              ELSE IF label = None THEN << >>
              ELSE << << text, label >> >>)
             \o RowExamples(Tail(rows))

RECURSIVE TryEncodings(_, _)
\* `for enc in encodings_to_try` on one file: the attempts made, each with
\* the pairs it appended to texts/labels before it ended.  UnicodeDecodeError
\* goes on to the next encoding; success and any other exception break.
TryEncodings(file, encodings) ==
    IF Len(encodings) = 0 THEN << >>
    ELSE LET enc == Head(encodings)
             read == ReadRows(file, enc)
             attempt == [enc |-> enc, raised |-> read.raised,
                         appended |-> RowExamples(read.rows)]
         IN  IF read.raised = "UnicodeDecodeError"
             THEN << attempt >> \o TryEncodings(file, Tail(encodings))
             ELSE << attempt >>

RECURSIVE LoadFiles_stops_at_missing(_, _)
\* LoadFiles with the bug of ending the loop at a file that does not exist
LoadFiles_stops_at_missing(fnames, disk) ==
    IF Len(fnames) = 0 THEN << >>
    ELSE LET fname == Head(fnames)
         IN  IF ~disk[fname].exists
             THEN << [fname |-> fname, exists |-> FALSE, attempts |-> << >>] >>
             ELSE << [fname |-> fname, exists |-> TRUE,
                      attempts |-> TryEncodings(disk[fname], encodings_to_try)] >>
                  \o LoadFiles_stops_at_missing(Tail(fnames), disk)

RECURSIVE LoadFiles(_, _)
\* `for fname in DATASET_FILES`: what happened to each file, in order
LoadFiles(fnames, disk) ==
    IF Len(fnames) = 0 THEN << >>
    ELSE LET fname == Head(fnames)
         IN  (IF ~disk[fname].exists
              THEN << [fname |-> fname, exists |-> FALSE, attempts |-> << >>] >>
              ELSE << [fname |-> fname, exists |-> TRUE,
                       attempts |-> TryEncodings(disk[fname], encodings_to_try)] >>)
             \o LoadFiles(Tail(fnames), disk)

RECURSIVE AppendedBy(_)
\* the pairs a sequence of attempts appended, in the order of the appends
AppendedBy(attempts) ==
    IF Len(attempts) = 0 THEN << >>
    ELSE Head(attempts).appended \o AppendedBy(Tail(attempts))

RECURSIVE AppendedIn(_)
\* the pairs appended over a whole load, file after file
AppendedIn(log) ==
    IF Len(log) = 0 THEN << >>
    ELSE AppendedBy(Head(log).attempts) \o AppendedIn(Tail(log))

\* load_csv_examples(): (texts, labels), with the record of the loops
load_csv_examples(disk) ==
    LET log == LoadFiles(DATASET_FILES, disk)
        pairs == AppendedIn(log)
    IN  [texts |-> [i \in 1..Len(pairs) |-> pairs[i][1]],
         labels |-> [i \in 1..Len(pairs) |-> pairs[i][2]],
         log |-> log]

-----------------------------------------------------------------------------
(* The fitted model (TfidfVectorizer + LinearSVC)                          *)

NotFitted == [classes |-> << >>]

\* the terms of the fitted vocabulary whose weights the model follows: the
\* words the generated request texts are made of, lower-cased
RequestTerms ==
    { "lgtm", "thanks", "pipeline", "ok", "null", "pointer", "exception", "risk",
      "nice", "change" }

\* the word unigrams the vectorizer extracts from a text (lowercase=True;
\* tokens of two or more characters)
Unigrams(text) ==
    LET words == StrSplit(StrLower(text))
    IN  { words[i] : i \in { j \in 1..Len(words) : Len(words[j]) >= 2 } }

\* Classes with the bug of listing every label of the taxonomy
Classes_all(labels) == ALL_LABELS

\* clf.classes_: the distinct training labels, sorted
Classes(labels) ==
    LET present == { i \in 1..Len(ALL_LABELS) :
                        \E k \in 1..Len(labels) : labels[k] = ALL_LABELS[i] }
        rank(i) == Cardinality({ j \in present : j <= i })
    IN  [r \in 1..Cardinality(present) |->
            ALL_LABELS[CHOOSE i \in present : rank(i) = r]]

\* gaps, in hundredths, by which the fitted intercept of one class can lead
InterceptGaps == { 0, 24, 25, 60 }

\* the terms of a text that the model follows
FollowedTerms(text) == Unigrams(text) \cap RequestTerms

\* FollowedTerms of the seed texts, computed once
SeedTerms ==
    [text \in { seed_examples_from_dict[1][k] : k \in 1..Len(seed_examples_from_dict[1]) }
        |-> FollowedTerms(text)] @@ << >>

\* vectorizer.fit_transform(train_texts): for every text, in order, the
\* terms of it that the model follows
fit_transform(texts) ==
    [k \in 1..Len(texts) |->
        IF texts[k] \in DOMAIN SeedTerms THEN SeedTerms[texts[k]]
        ELSE FollowedTerms(texts[k])] \o << >>

\* vectorizer.fit_transform + clf.fit.  The fitted weights are the
\* library's; they are taken from a bounded family of linear models: every
\* class has the same intercept but for one leading class, and a term
\* weighs for the classes whose training examples hold it.
LinearSVC_fit(texts, labels) ==
    LET classes == Classes(labels)
        n == Len(classes)
        X_train == fit_transform(texts)
        vocabulary == UNION { X_train[k] : k \in 1..Len(texts) }
        seen(term, i) == \E k \in 1..Len(texts) :
                            labels[k] = classes[i] /\ term \in X_train[k]
        coef == [term \in vocabulary |->
                    [i \in 1..n |-> IF seen(term, i) THEN 30 ELSE 0]]
    IN  { [ classes |-> classes,
            intercept |-> [i \in 1..n |-> IF i = lead THEN gap - 100 ELSE 0 - 100],
            coef |-> coef ]
          : lead \in {1, n}, gap \in InterceptGaps }

\* vectorizer.transform([text]): the known terms of the text
vectorizer_transform(model, text) == Unigrams(text) \cap DOMAIN model.coef

RECURSIVE SumOver(_, _, _)
SumOver(model, terms, i) ==
    IF terms = {} THEN 0
    ELSE LET term == CHOOSE x \in terms : TRUE
         IN  model.coef[term][i] + SumOver(model, terms \ {term}, i)

\* clf.decision_function(X)[0]: one score per class of clf.classes_
decision_function(model, X) ==
    [i \in 1..Len(model.classes) |-> model.intercept[i] + SumOver(model, X, i)]

\* int(np.argmax(scores)): the first index holding the largest score
argmax(scores) ==
    CHOOSE i \in 1..Len(scores) :
        /\ \A j \in 1..Len(scores) : scores[j] <= scores[i]
        /\ \A j \in 1..(i - 1) : scores[j] < scores[i]

\* second_largest with the bug of reading the last sorted score,
\* np.sort(scores)[-1], which is the largest
second_largest_last(scores) == scores[argmax(scores)]

\* np.sort(scores)[-2]: the largest score left when one occurrence of the
\* largest is set aside
second_largest(scores) ==
    LET top == argmax(scores)
        rest == { j \in 1..Len(scores) : j # top }
    IN  scores[CHOOSE j \in rest : \A k \in rest : scores[k] <= scores[j]]

\* CONFIDENCE_MARGIN with the bug of a lower threshold (0.20)
CONFIDENCE_MARGIN_low == 25 - 5

\* CONFIDENCE_MARGIN with the bug of rejecting a margin equal to it
CONFIDENCE_MARGIN_exclusive == 25 + 1

\* CONFIDENCE_MARGIN = 0.25, in hundredths
CONFIDENCE_MARGIN == 25

-----------------------------------------------------------------------------
(* POST /classify                                                          *)

ClassificationResult(label, margin, best) ==
    [predicted_label |-> label, margin |-> margin, best_score |-> best]

\* the rule engine was not called / the classifier was not called
NotCalled == [t |-> "", words |-> << >>, scores |-> << >>, ret |-> "NotCalled"]
NoScores == << >>

\* the result for a text that is empty once cleaned
empty_result == ClassificationResult(None, 0, 0)

\* rule_result with the bug of leaving best_score at 0.0
rule_result_no_best(rb_label) == ClassificationResult(rb_label, 100, 0)

\* the result for a rule hit: margin = 1.0 and best_score = 1.0
rule_result(rb_label) == ClassificationResult(rb_label, 100, 100)

\* svm_result with the bug of returning no label when the margin is low
svm_result_null_unsure(classes, scores) ==
    LET best_idx == argmax(scores)
        best_score == scores[best_idx]
        second_best == IF Len(scores) > 1 THEN second_largest(scores) ELSE 0
        margin == best_score - second_best
        predicted == IF margin < CONFIDENCE_MARGIN THEN None
                     ELSE classes[best_idx]
    IN  ClassificationResult(predicted, margin, best_score)

\* the result the threshold gives for the decision scores of the classes
svm_result(classes, scores) ==
    LET best_idx == argmax(scores)
        best_score == scores[best_idx]
        second_best == IF Len(scores) > 1 THEN second_largest(scores) ELSE 0
        margin == best_score - second_best
        predicted == IF margin < CONFIDENCE_MARGIN THEN LABEL_OTHER
                     ELSE classes[best_idx]
    IN  ClassificationResult(predicted, margin, best_score)

\* classify with the bug of asking the classifier first and the rules only
\* when its margin is low
classify_model_first(model, input_text) ==
    LET text == clean_text(input_text)
    IN  IF text = ""
        THEN [result |-> empty_result,
              text |-> text, rules |-> NotCalled, scores |-> NoScores]
        ELSE LET rules == rule_based_label_run(text)
                 rb_label == rules.ret
                 X == vectorizer_transform(model, text)
                 scores == decision_function(model, X)
                 by_model == svm_result(model.classes, scores)
             IN  IF by_model.margin < CONFIDENCE_MARGIN /\ rb_label # None
                 THEN [result |-> rule_result(rb_label),
                       text |-> text, rules |-> rules, scores |-> NoScores]
                 ELSE [result |-> by_model,
                       text |-> text, rules |-> rules, scores |-> scores]

\* classify(input): the result returned, with the locals of the call
\* (text, the rule_based_label call, the decision scores)
classify(model, input_text) ==
    LET text == clean_text(input_text)
    IN  IF text = ""
        THEN [result |-> empty_result,
              text |-> text, rules |-> NotCalled, scores |-> NoScores]
        ELSE LET rules == rule_based_label_run(text)
                 rb_label == rules.ret
             IN  IF rb_label # None
                 THEN [result |-> rule_result(rb_label),
                       text |-> text, rules |-> rules, scores |-> NoScores]
                 ELSE LET X == vectorizer_transform(model, text)
                          scores == decision_function(model, X)
                      IN  [result |-> svm_result(model.classes, scores),
                           text |-> text, rules |-> rules, scores |-> scores]

-----------------------------------------------------------------------------
(* Request texts                                                           *)

\* words with keyword hits: "lgtm" and "thanks" are listed once each for
\* label 9; "pipeline" twice for label 3 and once for label 8, where "pip"
\* is listed too
Vocabulary == { "lgtm", "Thanks", "pipeline" }

\* a word no keyword occurs in
Filler == "ok"

Cores == UNION { [1..n -> Vocabulary] : n \in 0..MaxCore }

Fill(n) == [i \in 1..n |-> Filler]

\* how a client lays the tokens out: plainly, or with line breaks and
\* surrounding white space
Layouts ==
    { [lead |-> "", sep |-> " ", trail |-> ""],
      [lead |-> " \t", sep |-> "\r\n ", trail |-> "\n"] }

Render(tokens, layout) == layout.lead \o StrJoin(layout.sep, tokens) \o layout.trail

SampleTexts == { "null pointer exception risk", "Nice change", "NULL\npointer" }

\* seed examples that clients send back word for word
SeedReplays ==
    { "does not implement the requested feature correctly",
      "updating the wrong variable here",
      "this will overflow for large n",
      "line length exceeds the maximum allowed",
      "this code path is not covered by any test",
      "this adds an O(n^2) algorithm in a hot path",
      "does not follow our contribution process",
      "generator was not run correctly for the new schema" }

RequestTexts ==
    { Render(core \o Fill(pad), layout) :
        core \in Cores, pad \in 0..MaxPad, layout \in Layouts }
    \cup SampleTexts \cup SeedReplays

-----------------------------------------------------------------------------
(* Dataset files                                                           *)

\* rows of a dataset, in the order they follow each other in a file
DatasetRows ==
    << Row("body_comment", "ok thanks", "Category", LABEL_OTHER),
       Row("text", "lgtm", None, None),
       Row("comment_body", " ok\r\nlgtm ", "category", LABEL_DESIGN),
       Row("body", " \n", "label", LABEL_LOGIC),
       Row("text", "ok", "label", "banana") >>

\* the runs of at most MaxRows consecutive rows of DatasetRows
RowRuns ==
    UNION { { SubSeq(DatasetRows, a, b) :
                b \in { c \in (a - 1)..Len(DatasetRows) : c - a + 1 <= MaxRows } } :
            a \in 1..Len(DatasetRows) }

\* the files that hold the given rows: read without error, or with an
\* exception raised after some of the rows
FilesOf(rows) ==
    { [exists |-> TRUE, rows |-> rows, raises |-> None, after |-> Len(rows)] }
    \cup { [exists |-> TRUE, rows |-> rows, raises |-> e, after |-> k] :
             e \in { "UnicodeDecodeError", "Exception" }, k \in 0..(Len(rows) - 1) }

Missing == [exists |-> FALSE, rows |-> << >>, raises |-> None, after |-> 0]

FileChoices == { Missing } \cup UNION { FilesOf(rows) : rows \in RowRuns }

\* the display strings without their "N) " numbering
UnnumberedNames ==
    { SubSeq(ALL_LABELS[i], 4, Len(ALL_LABELS[i])) : i \in 1..Len(ALL_LABELS) }

\* category strings, in mixed case, that meet the tests of several labels
MultiRuleCategories ==
    { "STYLE Convention Violation and Semantic", "Testing automation error",
      "POLICY automation error", "tool use of design misfit", "Build Intent Mismatch",
      "OTHER environment failure" }

\* category cells: the nine display strings, and strings no rule matches,
\* decorated or empty
CategorySamples ==
    { ALL_LABELS[i] : i \in 1..Len(ALL_LABELS) }
    \cup { "banana", "", "  ", "\"6) Architectural / Design Misfit\"", " 2) logic ",
           "Policy", "(see 2) other" }
    \cup UnnumberedNames \cup MultiRuleCategories

\* the files of one row whose category cell is a sample
CategoryFiles ==
    { [exists |-> TRUE, rows |-> << Row("text", "ok", "label", category) >>,
       raises |-> None, after |-> 1] : category \in CategorySamples }

\* rows of files whose header has several of the text and category columns,
\* with cells that are filled, empty or blank (None: the header lacks the
\* column)
AliasRows ==
    { RowOf(("body_comment" :> bc) @@ ("comment_body" :> cb) @@ ("text" :> tx)
            @@ ("Category" :> cat) @@ ("label" :> lb)) :
        bc \in { None, "", " ", "first" }, cb \in { None, "second" },
        tx \in { None, "", "fallback text" },
        cat \in { None, "", LABEL_LOGIC }, lb \in { None, LABEL_STYLE } }

\* the files of one such row
AliasFiles ==
    { [exists |-> TRUE, rows |-> << row >>, raises |-> None, after |-> 1] :
        row \in AliasRows }

Disk(first, second) == (DATASET_FILES[1] :> first) @@ (DATASET_FILES[2] :> second)

NoDatasets == Disk(Missing, Missing)

DatasetChoices ==
    { Disk(first, second) : first \in FileChoices, second \in FileChoices }
    \cup { Disk(first, Missing) : first \in CategoryFiles }
    \cup { Disk(first, Missing) : first \in AliasFiles }

-----------------------------------------------------------------------------
(* The process                                                             *)

NoRequest == "NoRequest"
NoResponse == [predicted_label |-> "NoResponse", margin |-> 0, best_score |-> 0]
NoTrace == [text |-> "NoTrace", rules |-> NotCalled, scores |-> NoScores]
NoEarlier == [text |-> NoRequest, result |-> NoResponse]

\* the threads of the server's pool; each runs one classify call at a time
Workers == 1..MaxWorkers

\* a thread that is running no call
IdleCall ==
    [pc |-> "idle", input |-> "", text |-> "", rb_label |-> None, X |-> {},
     scores |-> NoScores, result |-> NoResponse]

\* the state of the process before main.py is imported, on the given disk
Start(disk) ==
    /\ files = disk
    /\ load_log = << >>
    /\ train_texts = << >>
    /\ train_labels = << >>
    /\ clf = NotFitted
    /\ request = NoRequest
    /\ response = NoResponse
    /\ trace = NoTrace
    /\ earlier = NoEarlier
    /\ calls = [w \in Workers |-> IdleCall]

\* the repository ships no dataset file
Init == Start(NoDatasets)

\* a deployment with dataset files
InitLoad == \E disk \in DatasetChoices : Start(disk)

\* module initialisation with the bug of running again while the server is
\* idle: the corpus is rebuilt and the model fitted anew
Train_again ==
    /\ request = NoRequest
    /\ LET seed == seed_examples_from_dict
           csv == load_csv_examples(files)
           texts == seed[1] \o csv.texts
           labels == seed[2] \o csv.labels
       IN  /\ Len(texts) > 0
           /\ load_log' = csv.log
           /\ train_texts' = texts
           /\ train_labels' = labels
           /\ clf' \in LinearSVC_fit(texts, labels)
    /\ UNCHANGED <<files, request, response, trace, earlier, calls>>

\* module initialisation: load the files, build the corpus and fit the
\* model, once
Train ==
    /\ clf = NotFitted
    /\ LET seed == seed_examples_from_dict
           csv == load_csv_examples(files)
           texts == seed[1] \o csv.texts
           labels == seed[2] \o csv.labels
       IN  /\ Len(texts) > 0
           /\ load_log' = csv.log
           /\ train_texts' = texts
           /\ train_labels' = labels
           /\ clf' \in LinearSVC_fit(texts, labels)
    /\ UNCHANGED <<files, request, response, trace, earlier, calls>>

\* a client posts {text}, one of texts, to /classify
PostFrom(texts) ==
    /\ clf # NotFitted
    /\ request = NoRequest
    /\ \E text \in texts : request' = text
    /\ UNCHANGED <<files, load_log, train_texts, train_labels, clf, response, trace,
                   earlier, calls>>

Post == PostFrom(RequestTexts)

\* classify with the bug of learning from its own answer: the intercept of
\* the first class is raised
Classify_learns ==
    /\ request # NoRequest
    /\ response = NoResponse
    /\ LET out == classify(clf, request)
       IN  /\ response' = out.result
           /\ trace' = [text |-> out.text, rules |-> out.rules, scores |-> out.scores]
    /\ clf' = [clf EXCEPT !.intercept[1] = @ + 100]
    /\ UNCHANGED <<files, load_log, train_texts, train_labels, request, earlier, calls>>

\* the handler classify() runs on the posted text and returns its result
Classify ==
    /\ request # NoRequest
    /\ response = NoResponse
    /\ LET out == classify(clf, request)
       IN  /\ response' = out.result
           /\ trace' = [text |-> out.text, rules |-> out.rules, scores |-> out.scores]
    /\ UNCHANGED <<files, load_log, train_texts, train_labels, clf, request, earlier,
                   calls>>

\* the response is sent; the server waits for the next request
Reply ==
    /\ response # NoResponse
    /\ request' = NoRequest
    /\ response' = NoResponse
    /\ trace' = NoTrace
    /\ UNCHANGED <<files, load_log, train_texts, train_labels, clf, earlier, calls>>

\* the response is sent and the client notes it
ReplyNoted ==
    /\ response # NoResponse
    /\ earlier' = [text |-> request, result |-> response]
    /\ request' = NoRequest
    /\ response' = NoResponse
    /\ trace' = NoTrace
    /\ UNCHANGED <<files, load_log, train_texts, train_labels, clf, calls>>

Next == Train \/ Post \/ Classify \/ Reply

Spec == Init /\ [][Next]_vars

\* start-up alone, over the dataset files
NextLoad == Train

SpecLoad == InitLoad /\ [][NextLoad]_vars

\* texts a client sends again
RepeatTexts == SampleTexts \cup { Filler }

PostAgain == PostFrom(RepeatTexts)

\* clients that note answers and send texts again
NextRepeat == Train \/ PostAgain \/ Classify \/ Reply \/ ReplyNoted

SpecRepeat == Init /\ [][NextRepeat]_vars

-----------------------------------------------------------------------------
(* Serving with dataset files                                              *)

\* deployments: no dataset file; a first file with a row filed under Other;
\* a second file with a row filed under label 6
ServeDisks ==
    { NoDatasets,
      Disk([exists |-> TRUE, rows |-> SubSeq(DatasetRows, 1, 1), raises |-> None,
            after |-> 1], Missing),
      Disk(Missing, [exists |-> TRUE, rows |-> SubSeq(DatasetRows, 3, 3),
                     raises |-> None, after |-> 1]) }

InitServe == \E disk \in ServeDisks : Start(disk)

\* texts sent to these deployments
ServeTexts == RepeatTexts \cup SeedReplays \cup { " \t\n", "lgtm ok", "ok ok" }

PostServe == PostFrom(ServeTexts)

NextServe == Train \/ PostServe \/ Classify \/ Reply

SpecServe == InitServe /\ [][NextServe]_vars

-----------------------------------------------------------------------------
(* classify on the threads of the server                                   *)

\* the handler is a plain `def`: the server runs each call on a thread of
\* its pool, so calls overlap.  A call's locals (text, rb_label, X, scores)
\* are its own; vectorizer, clf and the module constants are shared.

\* texts the threads are sent: one that is blank, one the rules label and
\* one that goes to the classifier
ThreadTexts == { " \t\n", "pipeline", Filler }

\* thread w takes a request
Accept(w) ==
    /\ clf # NotFitted
    /\ calls[w].pc = "idle"
    /\ \E input \in ThreadTexts :
          calls' = [calls EXCEPT ![w] = [IdleCall EXCEPT !.pc = "clean", !.input = input]]
    /\ UNCHANGED <<files, load_log, train_texts, train_labels, clf, request, response,
                   trace, earlier>>

\* text = clean_text(input.text or ""); the empty text returns at once
CleanStep(w) ==
    /\ calls[w].pc = "clean"
    /\ LET text == clean_text(calls[w].input)
       IN  calls' = [calls EXCEPT ![w] =
                        IF text = ""
                        THEN [@ EXCEPT !.pc = "return", !.text = text,
                                       !.result = empty_result]
                        ELSE [@ EXCEPT !.pc = "rules", !.text = text]]
    /\ UNCHANGED <<files, load_log, train_texts, train_labels, clf, request, response,
                   trace, earlier>>

\* rb_label = rule_based_label(text); a label returns at once
RulesStep(w) ==
    /\ calls[w].pc = "rules"
    /\ LET rb_label == rule_based_label(calls[w].text)
       IN  calls' = [calls EXCEPT ![w] =
                        IF rb_label # None
                        THEN [@ EXCEPT !.pc = "return", !.rb_label = rb_label,
                                       !.result = rule_result(rb_label)]
                        ELSE [@ EXCEPT !.pc = "transform"]]
    /\ UNCHANGED <<files, load_log, train_texts, train_labels, clf, request, response,
                   trace, earlier>>

\* X = vectorizer.transform([text])
TransformStep(w) ==
    /\ calls[w].pc = "transform"
    /\ calls' = [calls EXCEPT ![w] =
                    [@ EXCEPT !.pc = "score",
                              !.X = vectorizer_transform(clf, calls[w].text)]]
    /\ UNCHANGED <<files, load_log, train_texts, train_labels, clf, request, response,
                   trace, earlier>>

\* scores = clf.decision_function(X)[0]
DecisionStep(w) ==
    /\ calls[w].pc = "score"
    /\ calls' = [calls EXCEPT ![w] =
                    [@ EXCEPT !.pc = "decide",
                              !.scores = decision_function(clf, calls[w].X)]]
    /\ UNCHANGED <<files, load_log, train_texts, train_labels, clf, request, response,
                   trace, earlier>>

\* DecideStep with the bug of adapting the shared model to the answer: the
\* intercept of the first class is raised
DecideStep_adapts(w) ==
    /\ calls[w].pc = "decide"
    /\ calls' = [calls EXCEPT ![w] =
                    [@ EXCEPT !.pc = "return",
                              !.result = svm_result(clf.classes, calls[w].scores)]]
    /\ clf' = [clf EXCEPT !.intercept[1] = @ + 100]
    /\ UNCHANGED <<files, load_log, train_texts, train_labels, request, response,
                   trace, earlier>>

\* classes = clf.classes_, best and second-best score, the threshold
DecideStep(w) ==
    /\ calls[w].pc = "decide"
    /\ calls' = [calls EXCEPT ![w] =
                    [@ EXCEPT !.pc = "return",
                              !.result = svm_result(clf.classes, calls[w].scores)]]
    /\ UNCHANGED <<files, load_log, train_texts, train_labels, clf, request, response,
                   trace, earlier>>

\* the result is returned; the thread is free again
ReturnStep(w) ==
    /\ calls[w].pc = "return"
    /\ calls' = [calls EXCEPT ![w] = IdleCall]
    /\ UNCHANGED <<files, load_log, train_texts, train_labels, clf, request, response,
                   trace, earlier>>

NextThreads ==
    \/ Train
    \/ \E w \in Workers : Accept(w)
    \/ \E w \in Workers : CleanStep(w)
    \/ \E w \in Workers : RulesStep(w)
    \/ \E w \in Workers : TransformStep(w)
    \/ \E w \in Workers : DecisionStep(w)
    \/ \E w \in Workers : DecideStep(w)
    \/ \E w \in Workers : ReturnStep(w)

SpecThreads == Init /\ [][NextThreads]_vars

-----------------------------------------------------------------------------
(* Vocabulary of the properties                                            *)

\* the handler has returned for the request in `request`
Answered == response # NoResponse

\* the call went through rule_based_label
RulesCalled == Answered /\ trace.rules # NotCalled

\* the call went through the classifier
ModelCalled == Answered /\ trace.scores # NoScores

\* every character of s is white space
IsBlank(s) == \A i \in 1..Len(s) : IsSpace(CharAt(s, i))

\* the count the scores dict holds for a label (0 when the label is absent)
CountOf(scores, label) ==
    IF \E i \in 1..Len(scores) : scores[i][1] = label
    THEN scores[CHOOSE i \in 1..Len(scores) : scores[i][1] = label][2]
    ELSE 0

\* the highest count of the scores dict (0 when it is empty)
MaxHits(scores) ==
    IF Len(scores) = 0 THEN 0
    ELSE CHOOSE m \in { scores[i][2] : i \in 1..Len(scores) } :
            \A i \in 1..Len(scores) : scores[i][2] <= m

\* the labels whose count is the highest
BestLabels(scores) ==
    { scores[i][1] : i \in { j \in 1..Len(scores) : scores[j][2] = MaxHits(scores) } }

\* the keyword list of a label
KeywordsOf(label) ==
    KEYWORDS[CHOOSE i \in 1..Len(KEYWORDS) : KEYWORDS[i][1] = label][2]

\* the distinct configured phrases of a label that occur in t
PhrasesPresent(label, t) ==
    { kw \in { KeywordsOf(label)[i] : i \in 1..Len(KeywordsOf(label)) } : StrIn(kw, t) }

\* the highest decision score, and the second-highest (the highest again
\* when two classes share it)
TopScore(scores) ==
    CHOOSE v \in { scores[i] : i \in 1..Len(scores) } :
        \A i \in 1..Len(scores) : scores[i] <= v

RunnerUpScore(scores) ==
    IF Cardinality({ i \in 1..Len(scores) : scores[i] = TopScore(scores) }) > 1
    THEN TopScore(scores)
    ELSE CHOOSE v \in { scores[i] : i \in 1..Len(scores) } \ { TopScore(scores) } :
            \A i \in 1..Len(scores) : scores[i] # TopScore(scores) => scores[i] <= v

\* the decision scores of the fitted model for the cleaned text of the call
ModelScores == decision_function(clf, vectorizer_transform(clf, trace.text))

-----------------------------------------------------------------------------
(* Properties                                                              *)

\* C1: whenever rule_based_label returns a label for the cleaned text,
\* classify returns that label with margin = 1.0 and best_score = 1.0, and
\* no decision score is computed.
C1_RuleLabelReturned ==
    (RulesCalled /\ trace.rules.ret # None)
        => /\ response = ClassificationResult(trace.rules.ret, 100, 100)
           /\ trace.scores = NoScores

\* C1 witness: a rule hit answered while the fitted model, asked, would
\* have picked another label with a margin above the threshold
C1_Witness ==
    /\ RulesCalled
    /\ trace.rules.ret = LABEL_BUILD_CI
    /\ response.predicted_label = LABEL_BUILD_CI
    /\ TopScore(ModelScores) - RunnerUpScore(ModelScores) >= CONFIDENCE_MARGIN
    /\ clf.classes[argmax(ModelScores)] # LABEL_BUILD_CI

\* C2: for a non-empty text on which the rules return none and whose two
\* highest decision scores differ by less than 0.25, classify returns
\* Other with the computed margin and best_score.
C2_LowMarginIsOther ==
    (Answered /\ trace.text # "" /\ trace.rules.ret = None
       /\ TopScore(ModelScores) - RunnerUpScore(ModelScores) < 25)
        => response = ClassificationResult(
                          LABEL_OTHER,
                          TopScore(ModelScores) - RunnerUpScore(ModelScores),
                          TopScore(ModelScores))

\* C2 witness: a class other than Other scores highest, by a positive
\* margin under the threshold, and Other is returned
C2_Witness ==
    /\ ModelCalled
    /\ clf.classes[argmax(trace.scores)] = LABEL_SPEC_INTENT
    /\ response.margin > 0
    /\ response.margin < 25
    /\ response.predicted_label = LABEL_OTHER

\* C3: for a non-empty text on which the rules return none and whose
\* margin is at least 0.25 (0.25 included), classify returns the label of
\* the highest decision score with that margin and best_score.
C3_HighMarginIsBest ==
    (Answered /\ trace.text # "" /\ trace.rules.ret = None
       /\ TopScore(ModelScores) - RunnerUpScore(ModelScores) >= 25)
        => /\ response.margin = TopScore(ModelScores) - RunnerUpScore(ModelScores)
           /\ response.best_score = TopScore(ModelScores)
           /\ \E i \in 1..Len(clf.classes) :
                 /\ ModelScores[i] = TopScore(ModelScores)
                 /\ response.predicted_label = clf.classes[i]

\* C3 witness: the margin is exactly 0.25 and the best label is returned
C3_Witness ==
    /\ ModelCalled
    /\ response.margin = 25
    /\ response.predicted_label = clf.classes[argmax(trace.scores)]
    /\ response.predicted_label # LABEL_OTHER

\* C4: a request that is empty or holds white space only gets
\* (None, 0.0, 0.0), and neither the rules nor the classifier is called.
C4_BlankIsNull ==
    (Answered /\ IsBlank(request))
        => /\ response = ClassificationResult(None, 0, 0)
           /\ trace.rules = NotCalled
           /\ trace.scores = NoScores

\* C4 witness: a request of white space only was answered
C4_Witness ==
    /\ Answered
    /\ Len(request) > 0
    /\ IsBlank(request)
    /\ response.predicted_label = None

\* C5: the count rule_based_label holds for a label is the number of
\* distinct configured phrases of the label that occur in the lower-cased
\* text.
C5_CountIsDistinctPhrases ==
    RulesCalled
        => \A k \in 1..Len(KEYWORDS) :
              CountOf(trace.rules.scores, KEYWORDS[k][1])
                  = Cardinality(PhrasesPresent(KEYWORDS[k][1], StrLower(trace.text)))

\* C6: a text with exactly 2 distinct configured phrases of one label and
\* at most 1 of every other label is given that label by the rules.
C6_TwoPhrasesWin ==
    RulesCalled
        => \A k \in 1..Len(KEYWORDS) :
              ( /\ Cardinality(PhrasesPresent(KEYWORDS[k][1], StrLower(trace.text))) = 2
                /\ \A o \in 1..Len(KEYWORDS) :
                      o # k => Cardinality(PhrasesPresent(KEYWORDS[o][1],
                                                          StrLower(trace.text))) <= 1 )
                  => trace.rules.ret = KEYWORDS[k][1]

\* C7: when the highest count is at least 2, the rules return a label
\* holding that count, however many tokens the text has.
C7_TwoHitsReturnBest ==
    (RulesCalled /\ MaxHits(trace.rules.scores) >= 2)
        => trace.rules.ret \in BestLabels(trace.rules.scores)

\* C7 witness: two hits of one label in a text of more than 8 tokens
C7_Witness ==
    /\ RulesCalled
    /\ MaxHits(trace.rules.scores) = 2
    /\ Len(trace.rules.words) > 8
    /\ trace.rules.ret = LABEL_OTHER

\* C8: with a highest count of exactly 1 the rules return a label holding
\* it when the text has at most 8 tokens and none when it has 9 or more;
\* with no hit at all they return none; and "null pointer exception risk"
\* is classified Logic / Semantic with margin = 1.0 and best_score = 1.0.
C8_SingleHitShortText ==
    /\ (RulesCalled /\ MaxHits(trace.rules.scores) = 1 /\ Len(StrSplit(trace.text)) <= 8)
          => trace.rules.ret \in BestLabels(trace.rules.scores)
    /\ (RulesCalled /\ MaxHits(trace.rules.scores) = 1 /\ Len(StrSplit(trace.text)) >= 9)
          => trace.rules.ret = None
    /\ (RulesCalled /\ MaxHits(trace.rules.scores) = 0) => trace.rules.ret = None
    /\ (Answered /\ request = "null pointer exception risk")
          => response = ClassificationResult(LABEL_LOGIC, 100, 100)

\* C8 witness: a single hit in a text of exactly 8 tokens gives its label
C8_Witness ==
    /\ RulesCalled
    /\ MaxHits(trace.rules.scores) = 1
    /\ Len(trace.rules.words) = 8
    /\ response = ClassificationResult(LABEL_OTHER, 100, 100)

\* C9: when several labels share the highest count and the rules return a
\* label, it is the one of lowest ordinal among them.
C9_TieLowestOrdinal ==
    (RulesCalled /\ trace.rules.ret # None)
        => \A label \in BestLabels(trace.rules.scores) :
              Ordinal(trace.rules.ret) <= Ordinal(label)

\* C9 witness: two labels share the highest count and the first is returned
C9_Witness ==
    /\ RulesCalled
    /\ Cardinality(BestLabels(trace.rules.scores)) > 1
    /\ trace.rules.ret = LABEL_BUILD_CI
    /\ LABEL_TOOLING \in BestLabels(trace.rules.scores)

\* module initialisation has completed
Trained == clf # NotFitted

\* C11: in the keyword list of every label each phrase is non-empty and
\* lower-cased, and no phrase occurs twice in the list (the tables the
\* running service matches against).
C11_KeywordSetsWellFormed ==
    Trained =>
        \A n \in 1..Len(KEYWORDS) :
            LET kws == KEYWORDS[n][2]
            IN  \A i \in 1..Len(kws) :
                   /\ kws[i] # ""
                   /\ StrLower(kws[i]) = kws[i]
                   /\ \A j \in 1..Len(kws) : kws[j] = kws[i] => j = i

\* C12: with no dataset file the service trains on the seed examples, and
\* a seed example that the rules match is answered with the label it is
\* filed under and margin 1.0.
C12_SeedExampleOwnLabel ==
    /\ Trained => Len(train_texts) > 0
    /\ \A k \in 1..Len(train_texts) :
          (RulesCalled /\ request = train_texts[k] /\ trace.rules.ret # None)
              => /\ response.predicted_label = train_labels[k]
                 /\ response.margin = 100

\* C13: a call of classify leaves the fitted model and the corpus as they
\* were, and a text that was classified before gets the result it got then.
C13_ClassifyIdempotent ==
    [][ (response = NoResponse /\ response' # NoResponse)
            => /\ clf' = clf
               /\ train_texts' = train_texts
               /\ train_labels' = train_labels
               /\ (earlier.text = request => response' = earlier.result) ]_vars

\* C13 witness: a text is classified by the model a second time, other
\* calls having been served, and the answer is the noted one
C13_Witness ==
    /\ ModelCalled
    /\ earlier.text = request
    /\ response = earlier.result

-----------------------------------------------------------------------------
(* Properties of the start-up                                              *)

SeedCount == Len(seed_examples_from_dict[1])

\* the (text, label) examples of the corpus that follow the seed examples
CsvPart ==
    [i \in 1..(Len(train_texts) - SeedCount) |->
        << train_texts[SeedCount + i], train_labels[SeedCount + i] >>]

FirstFile == files[DATASET_FILES[1]]
SecondFile == files[DATASET_FILES[2]]

\* C14: a row whose category cell is one of the nine numbered display
\* strings is filed under that label, and a row whose cell is a string no
\* rule matches ("banana") under Other.
C14_CategoryNormalized ==
    (Trained /\ FirstFile \in CategoryFiles /\ ~SecondFile.exists) =>
        LET cell == FirstFile.rows[1]["label"]
        IN  /\ (\E i \in 1..Len(ALL_LABELS) : cell = ALL_LABELS[i])
                  => CsvPart = << << "ok", cell >> >>
            /\ cell = "banana" => CsvPart = << << "ok", LABEL_OTHER >> >>

\* C14 witness: the display string of label 6 has been normalised
C14_Witness ==
    /\ Trained
    /\ FirstFile \in CategoryFiles
    /\ FirstFile.rows[1]["label"] = "6) Architectural / Design Misfit"
    /\ CsvPart = << << "ok", LABEL_DESIGN >> >>

\* the text load_csv_examples extracts from a row, cleaned, and the row's
\* category cell ("" when the row has none)
ExtractedText(row) ==
    clean_text(PyOr(PyOr(PyOr(PyOr(row["body_comment"], row["comment_body"]),
                              row["body"]), row["text"]), ""))

CategoryCell(row) == PyOr(PyOr(PyOr(row["Category"], row["category"]), row["label"]), "")

\* the rows of a file that the reader yields, in at least one attempt
RowsRead(file) ==
    IF file.raises = "Exception" THEN SubSeq(file.rows, 1, file.after) ELSE file.rows

\* the rows among them that have a text, and those that have a category too
TextRows(rows) == { k \in 1..Len(rows) : ExtractedText(rows[k]) # "" }

LabelledRows(rows) == { k \in TextRows(rows) : CategoryCell(rows[k]) # "" }

\* the corpus holds the example, after the seed examples
InCsvPart(text, label) ==
    \E j \in (SeedCount + 1)..Len(train_texts) :
        train_texts[j] = text /\ train_labels[j] = label

RECURSIVE LabelledReads(_, _)
\* how many times the attempts made on a file read a row that has a text
\* and a category
LabelledReads(file, attempts) ==
    IF Len(attempts) = 0 THEN 0
    ELSE Cardinality(LabelledRows(ReadRows(file, Head(attempts).enc).rows))
         + LabelledReads(file, Tail(attempts))

\* C15 as stated: every row that is read and has a text after cleaning is
\* a training example, whatever its category cell holds, empty or missing
\* included.
C15_TextRowsAllLoaded ==
    Trained =>
        \A n \in 1..Len(DATASET_FILES) :
            LET rows == RowsRead(files[DATASET_FILES[n]])
            IN  \A k \in TextRows(rows) :
                   \E label \in { ALL_LABELS[i] : i \in 1..Len(ALL_LABELS) } :
                       InCsvPart(ExtractedText(rows[k]), label)

\* C15 amended: every row that is read and has a text after cleaning and a
\* category cell that is not empty is a training example, under the label
\* of its category or under Other when no rule matches the cell; the rows
\* whose category cell is empty or missing give no example.
C15_LabelledRowsAllLoaded ==
    Trained =>
        /\ \A n \in 1..Len(DATASET_FILES) :
              LET rows == RowsRead(files[DATASET_FILES[n]])
              IN  \A k \in LabelledRows(rows) :
                     /\ InCsvPart(ExtractedText(rows[k]),
                                  normalize_category(CategoryCell(rows[k])))
                     /\ CategoryCell(rows[k]) = "banana"
                           => InCsvPart(ExtractedText(rows[k]), LABEL_OTHER)
        /\ Len(train_texts) - SeedCount
              = LabelledReads(FirstFile, load_log[1].attempts)
                + LabelledReads(SecondFile, load_log[2].attempts)

\* C15 witness: of a row without text and a row filed under "banana", read
\* from the first file, the second became an example under Other
C15_Witness ==
    /\ Trained
    /\ FirstFile.rows = SubSeq(DatasetRows, 4, 5)
    /\ FirstFile.raises = None
    /\ ~SecondFile.exists
    /\ CsvPart = << << "ok", LABEL_OTHER >> >>

\* the attempt, if any, that read a file to its end
FullReads(attempts) == { a \in 1..Len(attempts) : attempts[a].raised = None }

RECURSIVE FullReadExamples(_)
\* file after file, the examples appended by the attempt that read the
\* file to its end
FullReadExamples(log) ==
    IF Len(log) = 0 THEN << >>
    ELSE LET attempts == Head(log).attempts
         IN  (IF FullReads(attempts) = {} THEN << >>
              ELSE attempts[CHOOSE a \in FullReads(attempts) : TRUE].appended)
             \o FullReadExamples(Tail(log))

\* C16: the encodings are tried in the order of the list, and what a file
\* adds to the corpus are the examples of the first attempt that reads it to
\* its end: an attempt that fails adds nothing (for files that some
\* encoding reads to their end).
C16_FirstFullReadOnly ==
    (Trained /\ FirstFile.raises # "Exception" /\ SecondFile.raises # "Exception") =>
        /\ \A n \in 1..Len(load_log) :
              LET attempts == load_log[n].attempts
              IN  /\ Len(attempts) <= Len(encodings_to_try)
                  /\ \A a \in 1..Len(attempts) : attempts[a].enc = encodings_to_try[a]
                  /\ \A a \in FullReads(attempts) : a = Len(attempts)
        /\ CsvPart = FullReadExamples(load_log)

\* a file that exists and that no attempt read to its end
Skipped(entry) == entry.exists /\ FullReads(entry.attempts) = {}

\* C17: a file is given up only when every encoding of the list has failed
\* on it, it adds no example to the corpus, and the files after it are
\* loaded.
C17_SkippedAfterAllEncodings ==
    Trained =>
        /\ Len(load_log) = Len(DATASET_FILES)
        /\ \A n \in 1..Len(load_log) :
              Skipped(load_log[n])
                  => /\ Len(load_log[n].attempts) = Len(encodings_to_try)
                     /\ AppendedBy(load_log[n].attempts) = << >>

RECURSIVE ExamplesOfPresent(_)
\* file after file, what the loop over the encodings appends for the files
\* that exist
ExamplesOfPresent(fnames) ==
    IF Len(fnames) = 0 THEN << >>
    ELSE (IF files[Head(fnames)].exists
          THEN AppendedBy(TryEncodings(files[Head(fnames)], encodings_to_try))
          ELSE << >>)
         \o ExamplesOfPresent(Tail(fnames))

\* C18: a dataset file that does not exist is passed over: nothing is read
\* for it, the examples of the files before and after it are in the corpus,
\* and the model is fitted.
C18_MissingFilePassedOver ==
    (Trained /\ (~FirstFile.exists \/ ~SecondFile.exists))
        => /\ Len(load_log) = Len(DATASET_FILES)
           /\ \A n \in 1..Len(load_log) :
                 ~files[DATASET_FILES[n]].exists
                     => ~load_log[n].exists /\ load_log[n].attempts = << >>
           /\ CsvPart = ExamplesOfPresent(DATASET_FILES)
           /\ Len(clf.classes) > 0

\* C18 witness: the first file does not exist and the row of the second is
\* in the fitted model's corpus
C18_Witness ==
    /\ Trained
    /\ ~FirstFile.exists
    /\ SecondFile.rows = SubSeq(DatasetRows, 1, 1)
    /\ CsvPart = << << "ok thanks", LABEL_OTHER >> >>

\* C19: the corpus is the seed examples, label after label, followed by the
\* rows of the first file and then of the second, each row once and in the
\* order of the file (for files that can be read to their end).
C19_CorpusIsSeedThenRows ==
    (Trained /\ FirstFile.raises # "Exception" /\ SecondFile.raises # "Exception") =>
        [i \in 1..Len(train_texts) |-> << train_texts[i], train_labels[i] >>]
            = SeedPairs(SEED_LABEL_TEXTS)
              \o RowExamples(FirstFile.rows) \o RowExamples(SecondFile.rows)

-----------------------------------------------------------------------------
(* Properties of the life of the process                                   *)

\* C21: the process goes from not fitted to fitted once; no request is
\* taken and no result returned before the model is fitted, and once it is
\* fitted the corpus, the load record and the model stay as they are.
C21_TrainedOnceThenServing ==
    [][ /\ (request' # NoRequest \/ response' # NoResponse) => clf # NotFitted
        /\ clf # NotFitted
              => /\ clf' = clf
                 /\ train_texts' = train_texts
                 /\ train_labels' = train_labels
                 /\ load_log' = load_log ]_vars

\* C21 witness: the model fitted on the seed corpus has answered a request
\* on the classifier path
C21_Witness ==
    /\ Trained
    /\ train_texts = seed_examples_from_dict[1]
    /\ request = "this code path is not covered by any test"
    /\ ModelCalled

\* C22: whatever calls run at the same time and however their steps
\* interleave, no step of a call changes the fitted model or the corpus, and
\* the result a call returns is the result of classify run alone on its text.
C22_InterleavedCallsIndependent ==
    [][ /\ calls' # calls
           => (clf' = clf /\ train_texts' = train_texts /\ train_labels' = train_labels)
        /\ \A w \in Workers :
              calls'[w].pc = "return"
                  => calls'[w].result = classify(clf', calls'[w].input).result ]_vars

\* C22 witness: a call on the classifier path and a call the rules answered
\* have both finished, side by side, before either returned
C22_Witness ==
    \E v, w \in Workers :
        /\ v # w
        /\ calls[v].pc = "return"
        /\ calls[w].pc = "return"
        /\ calls[v].scores # NoScores
        /\ calls[w].rb_label # None
        /\ calls[v].result = classify(clf, calls[v].input).result

-----------------------------------------------------------------------------
(* Properties of the corpus and of the results                             *)

\* the nine canonical labels
CanonicalLabels == { ALL_LABELS[i] : i \in 1..Len(ALL_LABELS) }

\* C23: whatever the dataset files hold, every example of the corpus has a
\* text with a character that is not white space and a label that is one
\* of the nine canonical labels.
C23_ExamplesWellFormed ==
    Trained =>
        /\ Len(train_labels) = Len(train_texts)
        /\ \A k \in 1..Len(train_texts) :
              /\ ~IsBlank(train_texts[k])
              /\ train_labels[k] \in CanonicalLabels

\* C23 witness: of a file with a row of padded text and a row of blank
\* text, the first is in the corpus, cleaned, and the second is not
C23_Witness ==
    /\ Trained
    /\ FirstFile.rows = SubSeq(DatasetRows, 3, 4)
    /\ FirstFile.raises = None
    /\ ~SecondFile.exists
    /\ CsvPart = << << "ok lgtm", LABEL_DESIGN >> >>

\* C24: a result holds one label, which is a canonical label or null, and
\* it is null exactly when the request text is empty or all white space.
C24_OneLabelOrNull ==
    Answered =>
        /\ response.predicted_label \in CanonicalLabels \cup { None }
        /\ response.predicted_label = None <=> IsBlank(request)

\* C24 witness: a non-blank text that the rules leave and the classifier,
\* fitted with an Other class, scores with a low margin is answered Other
C24_Witness ==
    /\ ModelCalled
    /\ Len(clf.classes) = Len(ALL_LABELS)
    /\ ~IsBlank(request)
    /\ response.margin < CONFIDENCE_MARGIN
    /\ response.predicted_label = LABEL_OTHER

-----------------------------------------------------------------------------
(* Properties of the columns and of the category rules                     *)

TextAliases == << "body_comment", "comment_body", "body", "text" >>
CategoryAliases == << "Category", "category", "label" >>

\* the cell of the first column of aliases that the row has ("" when it has
\* none of them)
FirstPresent(row, aliases) ==
    LET present == { i \in 1..Len(aliases) : row[aliases[i]] # None }
    IN  IF present = {} THEN ""
        ELSE row[aliases[CHOOSE i \in present : \A j \in present : i <= j]]

\* the cell of the first column of aliases that the row has with something
\* in it ("" when there is none)
FirstFilled(row, aliases) ==
    LET filled == { i \in 1..Len(aliases) : row[aliases[i]] \notin { None, "" } }
    IN  IF filled = {} THEN ""
        ELSE row[aliases[CHOOSE i \in filled : \A j \in filled : i <= j]]

\* the examples a one-row file gives when text and category are the cells
\* that pick(row, aliases) picks
PickedExample(row, text_cell, category_cell) ==
    IF clean_text(text_cell) = "" \/ category_cell = "" THEN << >>
    ELSE << << clean_text(text_cell), normalize_category(category_cell) >> >>

\* C25 as claimed: the text is the cell of the first text column the row
\* has, the category the cell of the first category column it has, and a
\* row whose first text column is empty is skipped.
C25_FirstPresentField ==
    (Trained /\ FirstFile \in AliasFiles) =>
        LET row == FirstFile.rows[1]
        IN  CsvPart = PickedExample(row, FirstPresent(row, TextAliases),
                                    FirstPresent(row, CategoryAliases))

\* C25: the text is the cell of the first text column that the row has and
\* that is not empty, the category the cell of the first such category
\* column; the row is skipped when there is no such text cell or when it is
\* blank.
C25_FirstFilledField ==
    (Trained /\ FirstFile \in AliasFiles) =>
        LET row == FirstFile.rows[1]
        IN  /\ CsvPart = PickedExample(row, FirstFilled(row, TextAliases),
                                       FirstFilled(row, CategoryAliases))
            /\ IsBlank(FirstFilled(row, TextAliases)) => CsvPart = << >>

\* C25 witness: body_comment and Category are empty cells; text and label,
\* later aliases, give the example
C25_Witness ==
    /\ Trained
    /\ FirstFile \in AliasFiles
    /\ FirstFile.rows[1]["body_comment"] = ""
    /\ FirstFile.rows[1]["comment_body"] = None
    /\ FirstFile.rows[1]["Category"] = ""
    /\ CsvPart = << << "fallback text", LABEL_STYLE >> >>

Digits == { "0", "1", "2", "3", "4", "5", "6", "7", "8", "9" }

\* c begins with digits followed by ") "
HasNumberPrefix(c) ==
    LET p == FirstKept(c, 1, Digits)
    IN  p > 1 /\ p + 1 <= Len(c) /\ SubSeq(c, p, p + 1) = ") "

\* a category cell without the white space and quotes around it
Unquoted(cell) == StrStrip(StrStrip(StrStrip(cell, Whitespace), {"\""}), {"'"})

\* C26: a category without a "<digits>) " prefix is matched against the
\* rules in full, so that a display string written without its number is
\* filed under its own label.
C26_UnnumberedMatchedInFull ==
    (Trained /\ FirstFile \in CategoryFiles /\ ~SecondFile.exists) =>
        LET cell == FirstFile.rows[1]["label"]
        IN  (cell # "" /\ ~HasNumberPrefix(Unquoted(cell)))
                => CsvPart = << << "ok", CategoryOf(StrLower(Unquoted(cell))) >> >>

\* the tests of normalize_category as a table, in the order of the label
\* ordinals: what the matched string starts with, or holds
CategoryRules ==
    << [prefixes |-> { "specification" }, parts |-> { "intent mismatch" }],
       [prefixes |-> { "logic" }, parts |-> { "semantic" }],
       [prefixes |-> { "build" }, parts |-> { "ci/environment", "environment failure" }],
       [prefixes |-> { "style" }, parts |-> { "convention violation" }],
       [prefixes |-> { "testing" },
        parts |-> { "testing inadequacy", "missing, weak, or incorrect tests" }],
       [prefixes |-> { "architectural" }, parts |-> { "design misfit" }],
       [prefixes |-> { "process", "policy" }, parts |-> { }],
       [prefixes |-> { "tool-use", "tool use" }, parts |-> { "automation error" }],
       [prefixes |-> { "other" }, parts |-> { }] >>

\* the string s, whatever its case, meets the test of label i
RuleHolds(i, s) ==
    \/ \E prefix \in CategoryRules[i].prefixes : StartsWith(StrLower(s), prefix)
    \/ \E part \in CategoryRules[i].parts : StrIn(part, StrLower(s))

\* the part of a category cell that is matched against the rules
MatchedPart(cell) ==
    LET c == Unquoted(cell)
    IN  IF StrIn(")", c) THEN StrStrip(AfterFirst(c, ")"), Whitespace) ELSE c

\* C27: the category rules are applied without regard to case and in the
\* order of the label ordinals: a row whose category meets the tests of
\* one or several labels is filed under the one with the lowest ordinal.
C27_EarliestRuleWins ==
    (Trained /\ FirstFile \in CategoryFiles /\ ~SecondFile.exists) =>
        LET cell == FirstFile.rows[1]["label"]
            hits == { i \in 1..Len(ALL_LABELS) : RuleHolds(i, MatchedPart(cell)) }
        IN  (cell # "" /\ hits # {})
                => \E i \in hits :
                      /\ \A j \in hits : i <= j
                      /\ CsvPart = << << "ok", ALL_LABELS[i] >> >>

\* C27 witness: a category in upper case that starts as Style (4) and holds
\* the word of Logic (2) is filed under Logic
C27_Witness ==
    /\ Trained
    /\ FirstFile \in CategoryFiles
    /\ FirstFile.rows[1]["label"] = "STYLE Convention Violation and Semantic"
    /\ RuleHolds(4, "STYLE Convention Violation and Semantic")
    /\ CsvPart = << << "ok", LABEL_LOGIC >> >>

\* the labels that have an example in the corpus
TrainedLabels == { train_labels[k] : k \in 1..Len(train_labels) }

\* C28 as claimed: on the classifier path there is a decision score for
\* each of the nine labels, whatever corpus the model was fitted on.
C28_ScorePerLabel ==
    ModelCalled =>
        /\ Len(trace.scores) = Len(ALL_LABELS)
        /\ clf.classes = ALL_LABELS

\* C28: on the classifier path there is a decision score for each label
\* that has an example in the corpus, eight labels when the corpus is the
\* seed examples alone, and best and second-best are taken over these.
C28_ScorePerTrainedLabel ==
    ModelCalled =>
        /\ Len(trace.scores) = Cardinality(TrainedLabels)
        /\ { clf.classes[i] : i \in 1..Len(clf.classes) } = TrainedLabels
        /\ files = NoDatasets
              => TrainedLabels = CanonicalLabels \ { LABEL_OTHER }
        /\ response.best_score = TopScore(trace.scores)
        /\ response.margin = TopScore(trace.scores) - RunnerUpScore(trace.scores)

\* C28 witness: the model fitted on the seed examples alone has scored a
\* text: eight scores, none for Other
C28_Witness ==
    /\ ModelCalled
    /\ files = NoDatasets
    /\ Len(trace.scores) = 8
    /\ \A i \in 1..Len(clf.classes) : clf.classes[i] # LABEL_OTHER

\* the models that module initialisation can fit on the deployments
TrainedModels ==
    UNION { LET seed == seed_examples_from_dict
                csv == load_csv_examples(disk)
            IN  LinearSVC_fit(seed[1] \o csv.texts, seed[2] \o csv.labels) :
            disk \in ServeDisks }

\* what the classifier of a model alone would answer for the text of the
\* call
ByModel(model) ==
    svm_result(model.classes, decision_function(model, vectorizer_transform(model, trace.text)))

\* C29: when the rules return a label for a text, the result is the same
\* with every trained model, whatever dataset rows it was fitted on and
\* whatever label it would select itself.
C29_RulesOverrideAnyModel ==
    (RulesCalled /\ trace.rules.ret # None) =>
        \A model \in TrainedModels : classify(model, request).result = response

\* C29 witness: the rules answered, and a model fitted on another corpus
\* would select another label with a margin of at least 0.25
C29_Witness ==
    /\ RulesCalled
    /\ trace.rules.ret # None
    /\ \E model \in TrainedModels :
          /\ model.classes # clf.classes
          /\ ByModel(model).margin >= CONFIDENCE_MARGIN
          /\ ByModel(model).predicted_label # response.predicted_label
          /\ classify(model, request).result = response

\* C30: the margin of a result is never negative: 0.0 for a blank text,
\* 1.0 for a label of the rules, and on the classifier path the best score
\* less the second-highest (0 when two classes share the best score); a
\* label other than Other from the classifier has a margin of 0.25 or more.
C30_MarginNonNegative ==
    Answered =>
        /\ response.margin >= 0
        /\ IsBlank(request) => response.margin = 0
        /\ (RulesCalled /\ trace.rules.ret # None) => response.margin = 100
        /\ ModelCalled
              => /\ response.margin = response.best_score - RunnerUpScore(trace.scores)
                 /\ response.predicted_label # LABEL_OTHER
                       => response.margin >= CONFIDENCE_MARGIN

\* C30 witness: two classes share the best score; the margin is 0 and the
\* answer is Other
C30_Witness ==
    /\ ModelCalled
    /\ Cardinality({ i \in 1..Len(trace.scores) :
                        trace.scores[i] = response.best_score }) > 1
    /\ response.margin = 0
    /\ response.predicted_label = LABEL_OTHER

====
